---- MODULE Spec2Model ----
(***************************************************************************)
(* Shader parameter handling of gfx-rs (src/render/shade.rs): the link     *)
(* protocol (create_link / fill_params) of the unit source and of          *)
(* ParamDictionary, the parameterless ProgramHandle shell and CustomShell. *)
(*                                                                         *)
(* Indices are 0-based as in the source: the cell with index id of a       *)
(* dictionary channel is cells[id + 1] of the TLA+ sequence.               *)
(***************************************************************************)
EXTENDS Integers, Sequences, FiniteSets, TLC

VARIABLES heap, lnk, shells, call, out, debug

vars == <<heap, lnk, shells, call, out, debug>>

(***************************************************************************)
(* Bounds of the model.                                                    *)
(***************************************************************************)
\* the most cells a dictionary holds, over its three channels
MaxCells == 2
\* the most inputs a program declares, over its three channels
MaxVars == 2

\* variable and cell names; "a" and "A" differ only by case
Names == {"a", "A"}
\* cell values (uniform values, buffer handles, texture params) are opaque to
\* this layer, which only copies them: two distinct values tell a copy of one
\* cell from a copy of another
Values == {0, 1}
Channels == {"uniforms", "blocks", "textures"}

Min(a, b) == IF a < b THEN a ELSE b

(***************************************************************************)
(* Option<T> and the outcome of a call: a returned value, a returned error *)
(* or a panic (task failure).                                              *)
(***************************************************************************)
None == [some |-> FALSE]
Some(v) == [some |-> TRUE, val |-> v]

Ok(v) == [tag |-> "Ok", val |-> v]
Err(e) == [tag |-> "Err", err |-> e]
Panic == [tag |-> "Panic"]

ErrorUniform(n) == [kind |-> "Uniform", name |-> n]
ErrorBlock(n) == [kind |-> "Block", name |-> n]
ErrorTexture(n) == [kind |-> "Texture", name |-> n]

(***************************************************************************)
(* Data: declared input signatures, parameter buffers, dictionaries.       *)
(***************************************************************************)
VarSeqs(n) == UNION {[1 .. k -> [name : Names]] : k \in 0 .. n}

\* ParamLinkInput: the three declared descriptor sequences of a program
ParamLinkInput ==
    UNION {UNION {{[uniforms |-> u, blocks |-> b, textures |-> t] :
                     t \in VarSeqs(MaxVars - Len(u) - Len(b))} :
                  b \in VarSeqs(MaxVars - Len(u))} :
           u \in VarSeqs(MaxVars)}

NamedCell == [name : Names, value : Values]
CellSeqs(n) == UNION {[1 .. k -> NamedCell] : k \in 0 .. n}

ParamDictionary ==
    UNION {UNION {{[uniforms |-> u, blocks |-> b, textures |-> t] :
                     t \in CellSeqs(MaxCells - Len(u) - Len(b))} :
                  b \in CellSeqs(MaxCells - Len(u))} :
           u \in CellSeqs(MaxCells)}

\* a cleared ParamValues buffer of the given lengths: every slot None
ParamValues(nu, nb, nt) ==
    [uniforms |-> [i \in 1 .. nu |-> None],
     blocks   |-> [i \in 1 .. nb |-> None],
     textures |-> [i \in 1 .. nt |-> None]]

EmptyParams == ParamValues(0, 0, 0)

BufferLens ==
    {l \in [Channels -> 0 .. MaxVars] :
        l.uniforms + l.blocks + l.textures <= MaxVars}

Abs(n) == IF n < 0 THEN -n ELSE n

\* the buffer lengths of a signature, and those one slot off in one channel
BufferLensNear(sig) ==
    {l \in [Channels -> 0 .. MaxVars + 1] :
        Abs(l.uniforms - Len(sig.uniforms)) + Abs(l.blocks - Len(sig.blocks))
            + Abs(l.textures - Len(sig.textures)) <= 1}

LensOf(sig) == [c \in Channels |-> Len(sig[c])]

(***************************************************************************)
(* ShaderParam<()> for ()                                                  *)
(***************************************************************************)
\* the unit value ()
Unit == <<>>

UnitCreateLinkTexturesFirst(input) ==
    IF Len(input.uniforms) > 0 THEN Err(ErrorUniform("_"))
    ELSE IF Len(input.textures) > 0 THEN Err(ErrorTexture("_"))
    ELSE IF Len(input.blocks) > 0 THEN Err(ErrorBlock("_"))
    ELSE Ok(Unit)

UnitCreateLink(input) ==
    IF Len(input.uniforms) > 0 THEN Err(ErrorUniform("_"))
    ELSE IF Len(input.blocks) > 0 THEN Err(ErrorBlock("_"))
    ELSE IF Len(input.textures) > 0 THEN Err(ErrorTexture("_"))
    ELSE Ok(Unit)

(***************************************************************************)
(* ShaderParam<ParamDictionaryLink> for &ParamDictionary: create_link      *)
(***************************************************************************)
RECURSIVE PositionFrom(_, _, _)
\* iter().position(|c| c.name == name), scanning from 0-based index i
PositionFrom(cells, name, i) ==
    IF i >= Len(cells) THEN None
    ELSE IF cells[i + 1].name = name THEN Some(i)
    ELSE PositionFrom(cells, name, i + 1)

RECURSIVE PositionLastFrom(_, _, _)
PositionLastFrom(cells, name, i) ==
    IF i < 0 THEN None
    ELSE IF cells[i + 1].name = name THEN Some(i)
    ELSE PositionLastFrom(cells, name, i - 1)

\* a scan that keeps the last matching cell instead of the first
PositionLast(cells, name) == PositionLastFrom(cells, name, Len(cells) - 1)

\* a scan that reports 1-based positions
PositionOneBased(cells, name) ==
    LET p == PositionFrom(cells, name, 0)
    IN  IF p.some THEN Some(p.val + 1) ELSE None

Position(cells, name) == PositionFrom(cells, name, 0)

\* in_x.iter().map(|var| cells.iter().position(..)) before the unwrap
MapPosition(cells, vs) == [i \in 1 .. Len(vs) |-> Position(cells, vs[i].name)]

AllSome(ps) == \A i \in 1 .. Len(ps) : ps[i].some
Unwrapped(ps) == [i \in 1 .. Len(ps) |-> ps[i].val]

\* unwrap() of a None position panics; otherwise the three index vectors
DictCreateLink(dict, input) ==
    LET u == MapPosition(dict.uniforms, input.uniforms)
        b == MapPosition(dict.blocks, input.blocks)
        t == MapPosition(dict.textures, input.textures)
    IN  IF AllSome(u) /\ AllSome(b) /\ AllSome(t)
        THEN Ok([uniforms |-> Unwrapped(u),
                 blocks   |-> Unwrapped(b),
                 textures |-> Unwrapped(t)])
        ELSE Panic

(***************************************************************************)
(* ShaderParam<ParamDictionaryLink> for &ParamDictionary: fill_params      *)
(***************************************************************************)
\* a read that moves the value out and leaves the default behind
CellTake(cell) == [val |-> cell.value, cell |-> [cell EXCEPT !.value = 0]]

\* Cell::get: a copy of the value; the cell keeps it
CellGet(cell) == [val |-> cell.value, cell |-> cell]

RECURSIVE FillFrom(_, _, _, _)
\* for (&id, var) in link.iter().zip(out.mut_iter()) { *var = Some(cells[id].value.get()) }
\* from the k-th pair on; cells[id] out of bounds panics
FillFrom(cells, link, slots, k) ==
    IF k > Min(Len(link), Len(slots))
    THEN [tag |-> "Ok", slots |-> slots, cells |-> cells]
    ELSE IF link[k] >= Len(cells)
    THEN [tag |-> "Panic", slots |-> slots, cells |-> cells]
    ELSE LET g == CellGet(cells[link[k] + 1])
         IN  FillFrom([cells EXCEPT ![link[k] + 1] = g.cell], link,
                      [slots EXCEPT ![k] = Some(g.val)], k + 1)

\* every slot reads the cell after the linked one
FillChannelNextCell(cells, link, slots) ==
    FillFrom(cells, [i \in 1 .. Len(link) |-> (link[i] + 1) % (Len(cells) + 1)],
             slots, 1)

\* the last pair of the zip is skipped
FillChannelShort(cells, link, slots) ==
    FillFrom(cells, SubSeq(link, 1, Len(link) - 1), slots, 1)

FillChannel(cells, link, slots) == FillFrom(cells, link, slots, 1)

\* the three loops in order; a panic in one ends the call
DictFillParams(dict, link, params) ==
    LET u == FillChannel(dict.uniforms, link.uniforms, params.uniforms)
        d1 == [dict EXCEPT !.uniforms = u.cells]
        p1 == [params EXCEPT !.uniforms = u.slots]
        b == FillChannel(dict.blocks, link.blocks, params.blocks)
        d2 == [d1 EXCEPT !.blocks = b.cells]
        p2 == [p1 EXCEPT !.blocks = b.slots]
        t == FillChannel(dict.textures, link.textures, params.textures)
        d3 == [d2 EXCEPT !.textures = t.cells]
        p3 == [p2 EXCEPT !.textures = t.slots]
    IN  IF u.tag = "Panic" THEN [tag |-> "Panic", params |-> p1, dict |-> d1]
        ELSE IF b.tag = "Panic" THEN [tag |-> "Panic", params |-> p2, dict |-> d2]
        ELSE [tag |-> t.tag, params |-> p3, dict |-> d3]

(***************************************************************************)
(* ShaderParam<ParamDictionaryLink> for Rc<ParamDictionary>: both          *)
(* operations go to the dictionary the handle refers to.                   *)
(***************************************************************************)
\* the dictionary instances of the heap; an Rc or & handle is an address
Addrs == {"dictA", "dictB"}
OtherAddr(h) == IF h = "dictA" THEN "dictB" ELSE "dictA"

RcCreateLink(h, input) == DictCreateLink(heap[h], input)

\* the fill reads some instance other than the one the handle refers to
RcFillParamsDetached(h, link, params) ==
    DictFillParams(heap[OtherAddr(h)], link, params)

RcFillParams(h, link, params) == DictFillParams(heap[h], link, params)

(***************************************************************************)
(* ProgramShell for ProgramHandle, and CustomShell                         *)
(***************************************************************************)
\* program handles and the signature the device reports for each
Programs == {"progFull", "progMvp"}
ProgramMeta(p) ==
    IF p = "progFull"
    THEN [uniforms |-> <<[name |-> "mvp"]>>, blocks |-> <<>>,
          textures |-> <<[name |-> "tex"]>>]
    ELSE [uniforms |-> <<[name |-> "mvp"]>>, blocks |-> <<>>, textures |-> <<>>]

ProgramGetProgram(p) == p

IsEmpty(s) == Len(s) = 0

\* an assertion that looks at the uniforms alone
ProgramFillParamsUniformsOnly(p, params, dbg) ==
    IF dbg /\ ~IsEmpty(params.uniforms)
    THEN [tag |-> "Panic", params |-> params]
    ELSE [tag |-> "Ok", params |-> params]

\* debug_assert!: evaluated only in a build with debug assertions (dbg)
ProgramFillParams(p, params, dbg) ==
    IF dbg /\ ~(IsEmpty(params.uniforms) /\ IsEmpty(params.blocks)
                /\ IsEmpty(params.textures))
    THEN [tag |-> "Panic", params |-> params]
    ELSE [tag |-> "Ok", params |-> params]

ShellIds == {"s1", "s2"}
NoShell == [built |-> FALSE]

CustomShellNew(program, link, data) ==
    [built |-> TRUE, program |-> program, link |-> link, data |-> data]

ShellGetProgram(shell) == shell.program

ShellFillParams(shell, params) == RcFillParams(shell.data, shell.link, params)

(***************************************************************************)
(* State.                                                                  *)
(*   heap    the dictionary instances, by address                          *)
(*   lnk     the link a caller of create_link holds, with the signature    *)
(*           and the dictionary it was created for, and whether a linked   *)
(*           cell was overwritten since                                    *)
(*   shells  the CustomShells built so far                                 *)
(*   call    the last call made and how it ended; a fill_params records    *)
(*           the dictionary and the link it was given (dict, link),        *)
(*           whether it repeats the call before it (again) and, if so,     *)
(*           that call's output (before); a shell's fill records the cell  *)
(*           write it follows (after)                                      *)
(*   out     the ParamValues buffer of the last fill_params call           *)
(*   debug   whether the build evaluates debug assertions                  *)
(***************************************************************************)
NoLink == [has |-> FALSE]
NoCall == [op |-> "none", res |-> "Ok"]

\* a panic ends the task: nothing runs after it
Alive == call.res # "Panic"

Cleared(l) == ParamValues(l.uniforms, l.blocks, l.textures)

\* whether the link refers to the 0-based cell id of channel ch
Links(link, ch, id) == \E k \in 1 .. Len(link[ch]) : link[ch][k] = id

AllValues(d, v) ==
    \A ch \in Channels : \A i \in 1 .. Len(d[ch]) : d[ch][i].value = v

\* one dictionary of any names, its cells holding the default value
InitNames ==
    /\ \E d \in ParamDictionary :
          AllValues(d, 0) /\ heap = [a \in {"dictA"} |-> d]
    /\ lnk = NoLink
    /\ shells = [s \in ShellIds |-> NoShell]
    /\ call = NoCall
    /\ out = EmptyParams
    /\ debug = TRUE

\* one dictionary of any names and values
InitOne ==
    /\ \E d \in ParamDictionary : heap = [a \in {"dictA"} |-> d]
    /\ lnk = NoLink
    /\ shells = [s \in ShellIds |-> NoShell]
    /\ call = NoCall
    /\ out = EmptyParams
    /\ debug = TRUE

\* unit source: ().create_link(input)
UnitLink(input) ==
    /\ Alive
    /\ LET r == UnitCreateLink(input)
       IN  call' = [op |-> "unit.create_link", input |-> input,
                    res |-> r.tag, ret |-> r]
    /\ out' = EmptyParams
    /\ UNCHANGED <<heap, lnk, shells, debug>>

\* (&dict).create_link(input); the caller keeps the link it gets
CreateLink(a, input) ==
    /\ Alive
    /\ LET r == DictCreateLink(heap[a], input)
       IN  /\ call' = [op |-> "dict.create_link", input |-> input,
                       res |-> r.tag, ret |-> r]
           /\ lnk' = IF r.tag = "Ok"
                     THEN [has |-> TRUE, link |-> r.val, input |-> input,
                           on |-> a, dirty |-> FALSE]
                     ELSE NoLink
    /\ out' = EmptyParams
    /\ UNCHANGED <<heap, shells, debug>>

\* dict.<ch>[id].value.set(v), the value changing
SetValue(a, ch, id, v) ==
    /\ Alive
    /\ id < Len(heap[a][ch])
    /\ heap[a][ch][id + 1].value # v
    /\ heap' = [heap EXCEPT ![a][ch][id + 1].value = v]
    /\ lnk' = IF lnk.has /\ lnk.on = a /\ Links(lnk.link, ch, id)
              THEN [lnk EXCEPT !.dirty = TRUE]
              ELSE lnk
    /\ call' = [op |-> "set", res |-> "Ok"]
    /\ out' = EmptyParams
    /\ UNCHANGED <<shells, debug>>

\* (&dict).fill_params(&link, out) into a cleared buffer of lengths l
Fill(l) ==
    /\ LET r == DictFillParams(heap[lnk.on], lnk.link, Cleared(l))
           again == call.op = "dict.fill_params" /\ call.lens = l
       IN  /\ call' = [op |-> "dict.fill_params", lens |-> l, res |-> r.tag,
                       dict |-> heap[lnk.on], link |-> lnk.link,
                       again |-> again,
                       before |-> IF again THEN out ELSE EmptyParams]
           /\ out' = r.params
           /\ heap' = [heap EXCEPT ![lnk.on] = r.dict]
    /\ UNCHANGED <<lnk, shells, debug>>

NextUnit == \E input \in ParamLinkInput : UnitLink(input)

SpecUnit == InitNames /\ [][NextUnit]_vars

NextLink == \E input \in ParamLinkInput : CreateLink("dictA", input)

SpecLink == InitNames /\ [][NextLink]_vars

\* the link is created once and then reused
NextFill ==
    \/ \E input \in ParamLinkInput : ~lnk.has /\ CreateLink("dictA", input)
    \/ \E ch \in Channels, id \in 0 .. MaxCells - 1, v \in Values :
          SetValue("dictA", ch, id, v)
    \/ Alive /\ lnk.has /\ \E l \in BufferLensNear(lnk.input) : Fill(l)

SpecFill == InitOne /\ [][NextFill]_vars

(***************************************************************************)
(* Shells: two dictionary instances with the cells                         *)
(* {"mvp": uniform, "tex": texture}, shared by up to two CustomShells; the *)
(* programs are bound bare as well.                                        *)
(***************************************************************************)
DemoDictionary ==
    {[uniforms |-> <<[name |-> "mvp", value |-> u]>>, blocks |-> <<>>,
      textures |-> <<[name |-> "tex", value |-> t]>>] : u \in Values, t \in Values}

InitShell ==
    /\ heap \in [Addrs -> DemoDictionary]
    /\ lnk = NoLink
    /\ shells = [s \in ShellIds |-> NoShell]
    /\ call = NoCall
    /\ out = EmptyParams
    /\ debug \in BOOLEAN

\* CustomShell::new(program, link, data) with a link some create_link on the
\* shared dictionary returned for the signature of program linkFor
NewShell(s, program, linkFor, data) ==
    /\ Alive
    /\ ~shells[s].built
    /\ LET r == RcCreateLink(data, ProgramMeta(linkFor))
       IN  /\ r.tag = "Ok"
           /\ shells' = [shells EXCEPT ![s] = CustomShellNew(program, r.val, data)]
    /\ call' = [op |-> "shell.new", who |-> s, res |-> "Ok"]
    /\ out' = EmptyParams
    /\ UNCHANGED <<heap, lnk, debug>>

\* shell.data.<ch>[id].value.set(v) through the shell's data handle
ShellSet(s, ch, id, v) ==
    /\ Alive
    /\ shells[s].built
    /\ id < Len(heap[shells[s].data][ch])
    /\ heap[shells[s].data][ch][id + 1].value # v
    /\ heap' = [heap EXCEPT ![shells[s].data][ch][id + 1].value = v]
    /\ call' = [op |-> "shell.set", who |-> s, ch |-> ch, id |-> id, v |-> v,
                res |-> "Ok"]
    /\ out' = EmptyParams
    /\ UNCHANGED <<lnk, shells, debug>>

\* shell.fill_params(out), the buffer cleared and sized to shell.get_program()
ShellFill(s) ==
    /\ Alive
    /\ shells[s].built
    /\ LET prog == ShellGetProgram(shells[s])
           r == ShellFillParams(shells[s], Cleared(LensOf(ProgramMeta(prog))))
       IN  /\ call' = [op |-> "shell.fill_params", who |-> s, prog |-> prog,
                       after |-> IF call.op = "shell.set" THEN call ELSE NoCall,
                       res |-> r.tag]
           /\ out' = r.params
           /\ heap' = [heap EXCEPT ![shells[s].data] = r.dict]
    /\ UNCHANGED <<lnk, shells, debug>>

\* program.fill_params(out) on the bare handle, the buffer cleared, of lengths l
ProgramFill(p, l) ==
    /\ Alive
    /\ LET r == ProgramFillParams(p, Cleared(l), debug)
       IN  /\ call' = [op |-> "program.fill_params", who |-> p,
                       prog |-> ProgramGetProgram(p), lens |-> l, res |-> r.tag]
           /\ out' = r.params
    /\ UNCHANGED <<heap, lnk, shells, debug>>

NextShell ==
    \/ \E s \in ShellIds, p \in Programs, q \in Programs, d \in Addrs :
          NewShell(s, p, q, d)
    \/ \E s \in ShellIds, ch \in Channels, v \in Values : ShellSet(s, ch, 0, v)
    \/ \E s \in ShellIds : ShellFill(s)
    \/ \E p \in Programs, l \in BufferLens : ProgramFill(p, l)

SpecShell == InitShell /\ [][NextShell]_vars

(***************************************************************************)
(* Properties.                                                             *)
(***************************************************************************)
TheDict == heap["dictA"]

\* the declared names of channel ch that no cell of the dictionary carries
MissingNames(dict, input, ch) ==
    {input[ch][i].name : i \in 1 .. Len(input[ch])}
        \ {dict[ch][j].name : j \in 1 .. Len(dict[ch])}

HasMissing(dict, input) == \E ch \in Channels : MissingNames(dict, input, ch) # {}

MissingErrors(dict, input) ==
    {ErrorUniform(n) : n \in MissingNames(dict, input, "uniforms")}
        \cup {ErrorBlock(n) : n \in MissingNames(dict, input, "blocks")}
        \cup {ErrorTexture(n) : n \in MissingNames(dict, input, "textures")}

\* C1: when a declared uniform, block or texture name matches no cell of the
\* dictionary, create_link returns an error value of that category naming a
\* missing variable: it neither panics nor returns Ok.
C1_MissingIsReported ==
    (call.op = "dict.create_link" /\ HasMissing(TheDict, call.input))
        => /\ call.res = "Err"
           /\ call.ret.err \in MissingErrors(TheDict, call.input)

\* C2: the unit source's create_link returns Ok exactly when the three declared
\* sequences are empty, and otherwise the error of the first non-empty category
\* in the order uniforms, blocks, textures, with the name "_".
C2_UnitCreateLink ==
    call.op = "unit.create_link" =>
        LET i == call.input
        IN  /\ call.res = "Ok" <=>
                  (IsEmpty(i.uniforms) /\ IsEmpty(i.blocks) /\ IsEmpty(i.textures))
            /\ call.res \in {"Ok", "Err"}
            /\ ~IsEmpty(i.uniforms) => call.ret = Err(ErrorUniform("_"))
            /\ (IsEmpty(i.uniforms) /\ ~IsEmpty(i.blocks))
                  => call.ret = Err(ErrorBlock("_"))
            /\ (IsEmpty(i.uniforms) /\ IsEmpty(i.blocks) /\ ~IsEmpty(i.textures))
                  => call.ret = Err(ErrorTexture("_"))

\* blocks and textures both declared, no uniform: the block error wins
C2_Witness ==
    /\ call.op = "unit.create_link"
    /\ IsEmpty(call.input.uniforms)
    /\ ~IsEmpty(call.input.blocks)
    /\ ~IsEmpty(call.input.textures)
    /\ call.ret = Err(ErrorBlock("_"))

\* C3: when every declared name has a matching cell, create_link returns a link
\* with one index per declared input on each channel, the i-th index being the
\* smallest position of a cell whose name equals the i-th declared name.
C3_FirstMatch ==
    (call.op = "dict.create_link" /\ ~HasMissing(TheDict, call.input))
        => /\ call.res = "Ok"
           /\ \A ch \in Channels :
                 /\ Len(call.ret.val[ch]) = Len(call.input[ch])
                 /\ \A i \in 1 .. Len(call.input[ch]) :
                       LET id == call.ret.val[ch][i]
                       IN  /\ id \in 0 .. Len(TheDict[ch]) - 1
                           /\ TheDict[ch][id + 1].name = call.input[ch][i].name
                           /\ \A j \in 0 .. id - 1 :
                                 TheDict[ch][j + 1].name # call.input[ch][i].name

\* a declared name carried by two cells of its channel
C3_Witness ==
    /\ call.op = "dict.create_link"
    /\ call.res = "Ok"
    /\ \E ch \in Channels :
          /\ Len(TheDict[ch]) = 2
          /\ TheDict[ch][1].name = TheDict[ch][2].name
          /\ \E i \in 1 .. Len(call.input[ch]) :
                call.input[ch][i].name = TheDict[ch][1].name

\* the slots a fill writes, read from dictionary dict through link
WrittenFrom(dict, link, params) ==
    \A ch \in Channels :
        \A k \in 1 .. Min(Len(link[ch]), Len(params[ch])) :
            /\ link[ch][k] < Len(dict[ch])
            /\ params[ch][k] = Some(dict[ch][link[ch][k] + 1].value)

\* C4: whatever cell values were written since the link was created, a fill
\* with that link writes into each slot the value the linked cell holds when the
\* fill is made.
C4_FillReadsCurrentValue ==
    call.op = "dict.fill_params"
        => /\ call.res = "Ok"
           /\ WrittenFrom(call.dict, lnk.link, out)

\* a fill after a linked cell was overwritten with another value
C4_Witness ==
    /\ call.op = "dict.fill_params"
    /\ call.res = "Ok"
    /\ lnk.dirty
    /\ \E ch \in Channels : Len(out[ch]) > 0 /\ Len(lnk.link[ch]) > 0

\* C5: into a buffer whose three lengths are those of the signature the link
\* was created for, fill_params writes every slot of every channel as a present
\* value, slot i getting the value of the cell at the link's i-th index.
C5_EverySlotWritten ==
    (call.op = "dict.fill_params" /\ call.lens = LensOf(lnk.input))
        => /\ call.res = "Ok"
           /\ \A ch \in Channels :
                 /\ Len(out[ch]) = Len(lnk.input[ch])
                 /\ \A i \in 1 .. Len(out[ch]) :
                       /\ out[ch][i].some
                       /\ out[ch][i].val
                             = heap[lnk.on][ch][lnk.link[ch][i] + 1].value

\* two slots of one channel filled from cells of different values
C5_Witness ==
    /\ call.op = "dict.fill_params"
    /\ call.lens = LensOf(lnk.input)
    /\ \E ch \in Channels :
          /\ Len(out[ch]) = 2
          /\ out[ch][1].some /\ out[ch][2].some
          /\ out[ch][1].val # out[ch][2].val

\* C7: fill_params changes neither the dictionary's cells nor the link, and a
\* fill that repeats the one before it, into a cleared buffer of the same
\* lengths with no cell written in between, produces the same output.
C7_FillIdempotent ==
    call.op = "dict.fill_params"
        => /\ heap[lnk.on] = call.dict
           /\ lnk.link = call.link
           /\ call.again => out = call.before

\* a repeated fill that wrote a slot
C7_Witness ==
    /\ call.op = "dict.fill_params"
    /\ call.again
    /\ \E ch \in Channels : Len(out[ch]) > 0 /\ out[ch][1].some

\* C8: every index of a link create_link returned is smaller than the length of
\* the dictionary's cell sequence of its channel, whatever cell values are
\* written afterwards, and no fill with it fails.
C8_FillNeverFails ==
    lnk.has
        => /\ \A ch \in Channels : \A k \in 1 .. Len(lnk.link[ch]) :
                 lnk.link[ch][k] < Len(heap[lnk.on][ch])
           /\ call.op = "dict.fill_params" => call.res = "Ok"

\* a fill through a link to the last cell of a channel, after a write to it
C8_Witness ==
    /\ call.op = "dict.fill_params"
    /\ call.res = "Ok"
    /\ lnk.dirty
    /\ \E ch \in Channels :
          /\ Len(heap[lnk.on][ch]) = 2
          /\ Len(out[ch]) > 0
          /\ \E k \in 1 .. Len(lnk.link[ch]) : lnk.link[ch][k] = 1

\* C6: a fill by a shell that follows a cell write made through the data handle
\* of a shell holding the same dictionary instance (itself or the other one)
\* shows the written value in every slot linked to that cell.
C6_SharedStorage ==
    (call.op = "shell.fill_params" /\ call.after.op = "shell.set"
     /\ shells[call.after.who].data = shells[call.who].data)
        => /\ call.res = "Ok"
           /\ LET ch == call.after.ch
                  link == shells[call.who].link
              IN  \A k \in 1 .. Min(Len(link[ch]), Len(out[ch])) :
                      link[ch][k] = call.after.id
                          => out[ch][k] = Some(call.after.v)

\* the write went through one shell, the fill through the other, and a slot of
\* the fill is linked to the written cell
C6_Witness ==
    /\ call.op = "shell.fill_params"
    /\ call.after.op = "shell.set"
    /\ call.after.who # call.who
    /\ shells[call.after.who].data = shells[call.who].data
    /\ \E k \in 1 .. Len(out[call.after.ch]) :
          /\ k <= Len(shells[call.who].link[call.after.ch])
          /\ shells[call.who].link[call.after.ch][k] = call.after.id
          /\ out[call.after.ch][k] = Some(call.after.v)

\* C9: the link of every CustomShell is the link create_link returns for the
\* declared signature of the shell's own program.
C9_LinkMatchesProgram ==
    \A s \in ShellIds :
        shells[s].built
            => Ok(shells[s].link)
                  = RcCreateLink(shells[s].data,
                                 ProgramMeta(ShellGetProgram(shells[s])))

NonEmpty(l) == l.uniforms + l.blocks + l.textures > 0

\* C10 as stated: a fill of a bare program handle with a buffer that is not
\* empty on some channel is a fatal failure; with an empty buffer it completes
\* and writes nothing; get_program is the handle itself.
C10_NonEmptyIsFatal ==
    call.op = "program.fill_params"
        => /\ NonEmpty(call.lens) => call.res = "Panic"
           /\ ~NonEmpty(call.lens) => (call.res = "Ok" /\ out = EmptyParams)
           /\ call.prog = call.who

\* C10 amended: the failure is raised where the build evaluates debug
\* assertions; elsewhere the call completes and leaves every slot as it was.
C10_FatalInDebugBuild ==
    call.op = "program.fill_params"
        => /\ (NonEmpty(call.lens) /\ debug) => call.res = "Panic"
           /\ (NonEmpty(call.lens) /\ ~debug)
                 => (call.res = "Ok" /\ out = Cleared(call.lens))
           /\ ~NonEmpty(call.lens) => (call.res = "Ok" /\ out = EmptyParams)
           /\ call.prog = call.who

\* a buffer with a texture slot and no uniform slot, in a debug build
C10_Witness ==
    /\ call.op = "program.fill_params"
    /\ debug
    /\ call.lens.uniforms = 0
    /\ call.lens.textures > 0
    /\ call.res = "Panic"

====
